---- MODULE Spec2Model ----
(***************************************************************************)
(* SafeSpace "SafeLine" matchmaking and signaling.                         *)
(*                                                                         *)
(* The repository holds two Socket.IO servers over the same event names:   *)
(*   src/app1.py  broadcast policy, sessions keyed by a session id         *)
(*   src/app.py   single-target policy, sessions kept as a partner map     *)
(* Both run with async_mode="threading": every inbound event is handled on *)
(* its own thread and the handlers share module-level sets and dicts with  *)
(* no lock.  A handler is therefore modelled as a sequence of steps, one   *)
(* per access to the shared state; a step label lNNN (app1.py) or bNNN     *)
(* (app.py) is the source line of that access.  The first step of a        *)
(* handler is taken when its event arrives.  A call of emit() touches no   *)
(* shared state of the program and is folded into the step next to it.     *)
(* The variable program says which of the two servers is running.          *)
(*                                                                         *)
(* The environment is bounded by a script: how many times each connection  *)
(* may still send each event.  Each specification starts from its own      *)
(* script; everything the server emits is kept in the bag sent.            *)
(***************************************************************************)
EXTENDS Integers, FiniteSets, Sequences, TLC

\* ---------------------------------------------------------------- bounds
NumClients == 1
NumTherapists == 2
MaxThreads == 2
MaxSessions == 2
MaxSend == 1

\* the sids of the connections whose page plays the client role, and of those
\* whose page plays the therapist role
Clients == 1..NumClients
Therapists == (NumClients + 1)..(NumClients + NumTherapists)
Sids == Clients \cup Therapists
Threads == 1..MaxThreads
SessionIds == 1..MaxSessions

Events == {"connect", "disconnect", "therapist-online", "therapist-offline",
           "request-therapist", "cancel-request", "accept-request",
           "decline-request", "end-session", "offer", "answer",
           "ice-candidate"}

\* the WebRTC signaling events, relayed between the two members of a session
RelayEvents == {"offer", "answer", "ice-candidate"}

VARIABLES
    program,            \* "app1" or "app": the server that is running
    script,             \* environment: <<event, sid>> -> sends still to come
    connected,          \* transport: sids with a live connection
    online_therapists,  \* set of sids
    client_requests,    \* app1.py: the keys of the dict client_requests
    waiting_clients,    \* app1.py: set of sids
    pending_requests,   \* app.py: client_sid -> therapist_sid
    active_sessions,    \* app1.py: session_id -> [client_sid, therapist_sid]
    partner_of,         \* app.py's dict active_sessions: sid -> [partner, sess]
    timers,             \* the timer thread of each session that had one started
    threads,            \* handler threads that are between two steps
    nsess,              \* number of sessions created so far (uuid4 as a fresh id)
    created,            \* history: every session ever created, by its number
    cleared,            \* history: clients whose request a cancel-request removed
    sent,               \* history: bag of the emits, <<event, to, session>> -> count
    delivered,          \* history: the relayed signaling messages, in emit order
    crashed             \* history: <<event, sid>> of the handlers that raised

vars == <<program, script, connected, online_therapists, client_requests,
          waiting_clients, pending_requests, active_sessions, partner_of,
          timers, threads, nsess, created, cleared, sent, delivered, crashed>>

registry == <<online_therapists, client_requests, waiting_clients,
              pending_requests, active_sessions, partner_of>>

\* ---------------------------------------------------------------- helpers
Min(S) == CHOOSE x \in S : \A y \in S : x <= y

Remove(f, k) == [x \in (DOMAIN f) \ {k} |-> f[x]]

Put(f, k, v) == [x \in (DOMAIN f) \cup {k} |-> IF x = k THEN v ELSE f[x]]

Idle == [ev |-> "idle", sid |-> 0, arg |-> 0, pc |-> "idle", loc |-> 0]

FreeSlots == {t \in Threads : threads[t].pc = "idle"}

\* the event ev arrives from connection s
Take(ev, s) ==
    /\ s \in connected
    /\ script[<<ev, s>>] > 0
    /\ script' = [script EXCEPT ![<<ev, s>>] = @ - 1]

\* the handler thread stays suspended between two of its steps
Spawn(ev, s, arg, pc, loc) ==
    /\ FreeSlots # {}
    /\ threads' = [threads EXCEPT ![Min(FreeSlots)] =
                     [ev |-> ev, sid |-> s, arg |-> arg, pc |-> pc, loc |-> loc]]

At(t, ev, pc) == threads[t].ev = ev /\ threads[t].pc = pc

Goto(t, pc) == threads' = [threads EXCEPT ![t].pc = pc]

GotoLoc(t, pc, loc) == threads' = [threads EXCEPT ![t].pc = pc, ![t].loc = loc]

Finish(t) == threads' = [threads EXCEPT ![t] = Idle]

\* the handler thread ends with an unhandled exception
Raise(t) ==
    /\ threads' = [threads EXCEPT ![t] = Idle]
    /\ crashed' = crashed \cup {<<threads[t].ev, threads[t].sid>>}

Add1(bag, e) == IF e \in DOMAIN bag THEN [bag EXCEPT ![e] = @ + 1] ELSE bag @@ (e :> 1)

\* emit(ev, room=to); tag is the session the emit is about, 0 when none
Emit1(ev, to, tag) == sent' = Add1(sent, <<ev, to, tag>>)

Emit2(ev1, to1, ev2, to2, tag) ==
    sent' = Add1(Add1(sent, <<ev1, to1, tag>>), <<ev2, to2, tag>>)

\* emit(ev, broadcast=True): to every connection
Broadcast(bag, ev) ==
    [e \in (DOMAIN bag) \cup {<<ev, s, 0>> : s \in connected} |->
        (IF e \in DOMAIN bag THEN bag[e] ELSE 0)
        + (IF e[1] = ev /\ e[3] = 0 /\ e[2] \in connected THEN 1 ELSE 0)]

Sent(ev, to, tag) == IF <<ev, to, tag>> \in DOMAIN sent THEN sent[<<ev, to, tag>>] ELSE 0

\* ------------------------------------------------------------------- Init
Init ==
    /\ program \in {"app1", "app"}
    /\ connected = {}
    /\ online_therapists = {}
    /\ client_requests = {}
    /\ waiting_clients = {}
    /\ pending_requests = <<>>
    /\ active_sessions = <<>>
    /\ partner_of = <<>>
    /\ timers = <<>>
    /\ threads = [t \in Threads |-> Idle]
    /\ nsess = 0
    /\ created = <<>>
    /\ cleared = {}
    /\ sent = <<>>
    /\ delivered = <<>>
    /\ crashed = {}

\* ---------------------------------------------------------------- transport
\* handle_connect of both servers only logs; a sid is never used again once
\* its connection has dropped
handle_connect(s) ==
    /\ s \notin connected
    /\ script[<<"connect", s>>] > 0
    /\ script' = [script EXCEPT ![<<"connect", s>>] = @ - 1]
    /\ connected' = connected \cup {s}
    /\ UNCHANGED <<program, online_therapists, client_requests, waiting_clients,
                   pending_requests, active_sessions, partner_of, timers,
                   threads, nsess, created, cleared, sent, delivered, crashed>>

\* ------------------------------------------------------------ src/app1.py
\* the message of the error event of handle_request_therapist, line 84
MsgNoTherapists == -1
\* the message of the error event of handle_accept_request, line 119
MsgRequestGone == -2

\* find_session_by_participant: the first session, in insertion order, that
\* holds sid; 0 stands for None.  Session ids are inserted in increasing order.
find_session_by_participant(sid) ==
    LET S == {n \in DOMAIN active_sessions :
                sid \in {active_sessions[n].client_sid, active_sessions[n].therapist_sid}}
    IN IF S = {} THEN 0 ELSE Min(S)

\* the other participant, as computed at line 55
OtherSid(session, sid) ==
    IF sid = session.client_sid THEN session.therapist_sid ELSE session.client_sid

\* handle_disconnect, line 38: the transport has dropped the connection
app1_disconnect_l38(s) ==
    /\ program = "app1"
    /\ Take("disconnect", s)
    /\ connected' = connected \ {s}
    /\ Spawn("disconnect", s, 0, IF s \in online_therapists THEN "l39" ELSE "l43", 0)
    /\ UNCHANGED <<program, online_therapists, client_requests, waiting_clients,
                   pending_requests, active_sessions, partner_of, timers, nsess,
                   created, cleared, sent, delivered, crashed>>

\* lines 39-40: set.remove raises KeyError when the element is absent
app1_disconnect_l39(t) ==
    /\ program = "app1" /\ At(t, "disconnect", "l39")
    /\ IF threads[t].sid \in online_therapists
       THEN /\ online_therapists' = online_therapists \ {threads[t].sid}
            /\ sent' = Broadcast(sent, "therapist-offline")
            /\ Goto(t, "l43")
            /\ UNCHANGED crashed
       ELSE /\ Raise(t)
            /\ UNCHANGED <<online_therapists, sent>>
    /\ UNCHANGED <<program, script, connected, client_requests, waiting_clients,
                   pending_requests, active_sessions, partner_of, timers, nsess,
                   created, cleared, delivered>>

app1_disconnect_l43(t) ==
    /\ program = "app1" /\ At(t, "disconnect", "l43")
    /\ Goto(t, IF threads[t].sid \in client_requests THEN "l44" ELSE "l47")
    /\ UNCHANGED <<program, script, connected, online_therapists, client_requests,
                   waiting_clients, pending_requests, active_sessions,
                   partner_of, timers, nsess, created, cleared, sent, delivered,
                   crashed>>

app1_disconnect_l44(t) ==
    /\ program = "app1" /\ At(t, "disconnect", "l44")
    /\ IF threads[t].sid \in client_requests
       THEN /\ client_requests' = client_requests \ {threads[t].sid}
            /\ Goto(t, "l47")
            /\ UNCHANGED crashed
       ELSE /\ Raise(t)
            /\ UNCHANGED client_requests
    /\ UNCHANGED <<program, script, connected, online_therapists, waiting_clients,
                   pending_requests, active_sessions, partner_of, timers, nsess,
                   created, cleared, sent, delivered>>

app1_disconnect_l47(t) ==
    /\ program = "app1" /\ At(t, "disconnect", "l47")
    /\ Goto(t, IF threads[t].sid \in waiting_clients THEN "l48" ELSE "l52")
    /\ UNCHANGED <<program, script, connected, online_therapists, client_requests,
                   waiting_clients, pending_requests, active_sessions,
                   partner_of, timers, nsess, created, cleared, sent, delivered,
                   crashed>>

app1_disconnect_l48(t) ==
    /\ program = "app1" /\ At(t, "disconnect", "l48")
    /\ IF threads[t].sid \in waiting_clients
       THEN /\ waiting_clients' = waiting_clients \ {threads[t].sid}
            /\ Goto(t, "l52")
            /\ UNCHANGED crashed
       ELSE /\ Raise(t)
            /\ UNCHANGED waiting_clients
    /\ UNCHANGED <<program, script, connected, online_therapists, client_requests,
                   pending_requests, active_sessions, partner_of, timers, nsess,
                   created, cleared, sent, delivered>>

\* lines 51-60: the scan for the first session of the sid and the emits to
\* the other participant; line 62 finds session_to_remove None or not
app1_disconnect_l52(t) ==
    /\ program = "app1" /\ At(t, "disconnect", "l52")
    /\ LET sid == threads[t].sid
           n == find_session_by_participant(sid)
       IN IF n = 0
          THEN /\ Finish(t)
               /\ UNCHANGED sent
          ELSE /\ GotoLoc(t, "l63", n)
               /\ Emit2("session-ended", OtherSid(active_sessions[n], sid),
                        "user-left", OtherSid(active_sessions[n], sid), n)
    /\ UNCHANGED <<program, script, connected, online_therapists, client_requests,
                   waiting_clients, pending_requests, active_sessions,
                   partner_of, timers, nsess, created, cleared, delivered,
                   crashed>>

\* line 63: del raises KeyError when the key is absent
app1_disconnect_l63(t) ==
    /\ program = "app1" /\ At(t, "disconnect", "l63")
    /\ IF threads[t].loc \in DOMAIN active_sessions
       THEN /\ active_sessions' = Remove(active_sessions, threads[t].loc)
            /\ Finish(t)
            /\ UNCHANGED crashed
       ELSE /\ Raise(t)
            /\ UNCHANGED active_sessions
    /\ UNCHANGED <<program, script, connected, online_therapists, client_requests,
                   waiting_clients, pending_requests, partner_of, timers, nsess,
                   created, cleared, sent, delivered>>

\* handle_therapist_online, lines 65-70
app1_therapist_online(s) ==
    /\ program = "app1"
    /\ Take("therapist-online", s)
    /\ online_therapists' = online_therapists \cup {s}
    /\ Emit1("status-update", s, 0)
    /\ UNCHANGED <<program, connected, client_requests, waiting_clients,
                   pending_requests, active_sessions, partner_of, timers,
                   threads, nsess, created, cleared, delivered, crashed>>

\* handle_therapist_offline, line 75, and line 78 when the sid is not online
app1_therapist_offline_l75(s) ==
    /\ program = "app1"
    /\ Take("therapist-offline", s)
    /\ IF s \in online_therapists
       THEN /\ Spawn("therapist-offline", s, 0, "l76", 0)
            /\ UNCHANGED sent
       ELSE /\ Emit1("status-update", s, 0)
            /\ UNCHANGED threads
    /\ UNCHANGED <<program, connected, online_therapists, client_requests,
                   waiting_clients, pending_requests, active_sessions,
                   partner_of, timers, nsess, created, cleared, delivered,
                   crashed>>

\* lines 76-78
app1_therapist_offline_l76(t) ==
    /\ program = "app1" /\ At(t, "therapist-offline", "l76")
    /\ IF threads[t].sid \in online_therapists
       THEN /\ online_therapists' = online_therapists \ {threads[t].sid}
            /\ Emit1("status-update", threads[t].sid, 0)
            /\ Finish(t)
            /\ UNCHANGED crashed
       ELSE /\ Raise(t)
            /\ UNCHANGED <<online_therapists, sent>>
    /\ UNCHANGED <<program, script, connected, client_requests, waiting_clients,
                   pending_requests, active_sessions, partner_of, timers, nsess,
                   created, cleared, delivered>>

\* handle_request_therapist without the check of line 83
app1_request_therapist_unchecked(s) ==
    /\ program = "app1"
    /\ Take("request-therapist", s)
    /\ Spawn("request-therapist", s, online_therapists, "l88", 0)
    /\ UNCHANGED <<program, connected, online_therapists, client_requests,
                   waiting_clients, pending_requests, active_sessions,
                   partner_of, timers, nsess, created, cleared, sent, delivered,
                   crashed>>

\* handle_request_therapist, lines 83-85; the thread keeps in arg the
\* online therapists that line 83 read
app1_request_therapist_l83(s) ==
    /\ program = "app1"
    /\ Take("request-therapist", s)
    /\ IF online_therapists = {}
       THEN /\ Emit1("error", s, MsgNoTherapists)
            /\ UNCHANGED threads
       ELSE /\ Spawn("request-therapist", s, online_therapists, "l88", 0)
            /\ UNCHANGED sent
    /\ UNCHANGED <<program, connected, online_therapists, client_requests,
                   waiting_clients, pending_requests, active_sessions,
                   partner_of, timers, nsess, created, cleared, delivered,
                   crashed>>

\* lines 88-91
app1_request_therapist_l88(t) ==
    /\ program = "app1" /\ At(t, "request-therapist", "l88")
    /\ client_requests' = client_requests \cup {threads[t].sid}
    /\ Goto(t, "l92")
    /\ UNCHANGED <<program, script, connected, online_therapists, waiting_clients,
                   pending_requests, active_sessions, partner_of, timers, nsess,
                   created, cleared, sent, delivered, crashed>>

\* lines 92-100
app1_request_therapist_l92(t) ==
    /\ program = "app1" /\ At(t, "request-therapist", "l92")
    /\ waiting_clients' = waiting_clients \cup {threads[t].sid}
    /\ sent' = Add1(Broadcast(sent, "therapist-request"), <<"request-sent", threads[t].sid, 0>>)
    /\ Finish(t)
    /\ UNCHANGED <<program, script, connected, online_therapists, client_requests,
                   pending_requests, active_sessions, partner_of, timers, nsess,
                   created, cleared, delivered, crashed>>

\* handle_cancel_request, line 106
app1_cancel_request_l106(s) ==
    /\ program = "app1"
    /\ Take("cancel-request", s)
    /\ Spawn("cancel-request", s, 0, IF s \in client_requests THEN "l107" ELSE "l108", 0)
    /\ UNCHANGED <<program, connected, online_therapists, client_requests,
                   waiting_clients, pending_requests, active_sessions,
                   partner_of, timers, nsess, created, cleared, sent, delivered,
                   crashed>>

\* line 107
app1_cancel_request_l107(t) ==
    /\ program = "app1" /\ At(t, "cancel-request", "l107")
    /\ IF threads[t].sid \in client_requests
       THEN /\ client_requests' = client_requests \ {threads[t].sid}
            /\ cleared' = cleared \cup {threads[t].sid}
            /\ Goto(t, "l108")
            /\ UNCHANGED crashed
       ELSE /\ Raise(t)
            /\ UNCHANGED <<client_requests, cleared>>
    /\ UNCHANGED <<program, script, connected, online_therapists, waiting_clients,
                   pending_requests, active_sessions, partner_of, timers, nsess,
                   created, sent, delivered>>

\* line 109 without the test of line 108
app1_cancel_request_unguarded(t) ==
    /\ program = "app1" /\ At(t, "cancel-request", "l108")
    /\ IF threads[t].sid \in waiting_clients
       THEN /\ Goto(t, "l109")
            /\ UNCHANGED crashed
       ELSE Raise(t)
    /\ UNCHANGED <<program, script, connected, online_therapists, client_requests,
                   waiting_clients, pending_requests, active_sessions,
                   partner_of, timers, nsess, created, cleared, sent, delivered>>

\* line 108, and line 110 when the sid is not waiting
app1_cancel_request_l108(t) ==
    /\ program = "app1" /\ At(t, "cancel-request", "l108")
    /\ IF threads[t].sid \in waiting_clients
       THEN /\ Goto(t, "l109")
            /\ UNCHANGED sent
       ELSE /\ Emit1("request-cancelled", threads[t].sid, 0)
            /\ Finish(t)
    /\ UNCHANGED <<program, script, connected, online_therapists, client_requests,
                   waiting_clients, pending_requests, active_sessions,
                   partner_of, timers, nsess, created, cleared, delivered,
                   crashed>>

\* lines 109-110
app1_cancel_request_l109(t) ==
    /\ program = "app1" /\ At(t, "cancel-request", "l109")
    /\ IF threads[t].sid \in waiting_clients
       THEN /\ waiting_clients' = waiting_clients \ {threads[t].sid}
            /\ cleared' = cleared \cup {threads[t].sid}
            /\ Emit1("request-cancelled", threads[t].sid, 0)
            /\ Finish(t)
            /\ UNCHANGED crashed
       ELSE /\ Raise(t)
            /\ UNCHANGED <<waiting_clients, cleared, sent>>
    /\ UNCHANGED <<program, script, connected, online_therapists, client_requests,
                   pending_requests, active_sessions, partner_of, timers, nsess,
                   created, delivered>>

\* accept handlers that passed their check and have not yet created their
\* session: each will take a fresh session number
AcceptsBeforeCreate == Cardinality({t \in Threads : threads[t].pc \in {"l124", "b430"}})

\* handle_accept_request, lines 116-120
app1_accept_request_l118(s, c) ==
    /\ program = "app1"
    /\ Take("accept-request", s)
    /\ IF c \notin waiting_clients
       THEN /\ Emit1("error", s, MsgRequestGone)
            /\ UNCHANGED threads
       ELSE /\ nsess + AcceptsBeforeCreate < MaxSessions
            /\ Spawn("accept-request", s, c, "l124", 0)
            /\ UNCHANGED sent
    /\ UNCHANGED <<program, connected, online_therapists, client_requests,
                   waiting_clients, pending_requests, active_sessions,
                   partner_of, timers, nsess, created, cleared, delivered,
                   crashed>>

\* lines 123-130: a fresh session id, and the session stored under it
app1_accept_request_l124(t) ==
    /\ program = "app1" /\ At(t, "accept-request", "l124")
    /\ nsess' = nsess + 1
    /\ active_sessions' = Put(active_sessions, nsess + 1,
                              [client_sid |-> threads[t].arg, therapist_sid |-> threads[t].sid])
    /\ created' = Put(created, nsess + 1,
                      [client_sid |-> threads[t].arg, therapist_sid |-> threads[t].sid])
    /\ GotoLoc(t, "l133", nsess + 1)
    /\ UNCHANGED <<program, script, connected, online_therapists, client_requests,
                   waiting_clients, pending_requests, partner_of, timers,
                   cleared, sent, delivered, crashed>>

\* line 133: set.remove raises KeyError when the element is absent
app1_accept_request_l133(t) ==
    /\ program = "app1" /\ At(t, "accept-request", "l133")
    /\ IF threads[t].arg \in waiting_clients
       THEN /\ waiting_clients' = waiting_clients \ {threads[t].arg}
            /\ Goto(t, "l134")
            /\ UNCHANGED crashed
       ELSE /\ Raise(t)
            /\ UNCHANGED waiting_clients
    /\ UNCHANGED <<program, script, connected, online_therapists, client_requests,
                   pending_requests, active_sessions, partner_of, timers, nsess,
                   created, cleared, sent, delivered>>

\* start_session_timer, lines 228-241: the thread is started and sleeps
start_session_timer(session_id) ==
    timers' = Put(timers, session_id, [pc |-> "sleep"])

\* lines 138-150: the two emits, then start_session_timer(session_id)
app1_accept_notify(t) ==
    /\ Emit2("request-accepted", threads[t].arg, "session-started", threads[t].sid,
             threads[t].loc)
    /\ start_session_timer(threads[t].loc)
    /\ Finish(t)

\* line 134, and lines 138-150 when the client has no stored request
app1_accept_request_l134(t) ==
    /\ program = "app1" /\ At(t, "accept-request", "l134")
    /\ IF threads[t].arg \in client_requests
       THEN /\ Goto(t, "l135")
            /\ UNCHANGED <<timers, sent>>
       ELSE app1_accept_notify(t)
    /\ UNCHANGED <<program, script, connected, online_therapists, client_requests,
                   waiting_clients, pending_requests, active_sessions,
                   partner_of, nsess, created, cleared, delivered, crashed>>

\* line 135, then lines 138-150
app1_accept_request_l135(t) ==
    /\ program = "app1" /\ At(t, "accept-request", "l135")
    /\ IF threads[t].arg \in client_requests
       THEN /\ client_requests' = client_requests \ {threads[t].arg}
            /\ app1_accept_notify(t)
            /\ UNCHANGED crashed
       ELSE /\ Raise(t)
            /\ UNCHANGED <<client_requests, timers, sent>>
    /\ UNCHANGED <<program, script, connected, online_therapists, waiting_clients,
                   pending_requests, active_sessions, partner_of, nsess,
                   created, cleared, delivered>>

\* handle_decline_request, line 159
app1_decline_request_l159(s, c) ==
    /\ program = "app1"
    /\ Take("decline-request", s)
    /\ Spawn("decline-request", s, c, IF c \in waiting_clients THEN "l160" ELSE "l162", 0)
    /\ UNCHANGED <<program, connected, online_therapists, client_requests,
                   waiting_clients, pending_requests, active_sessions,
                   partner_of, timers, nsess, created, cleared, sent, delivered,
                   crashed>>

\* line 160
app1_decline_request_l160(t) ==
    /\ program = "app1" /\ At(t, "decline-request", "l160")
    /\ IF threads[t].arg \in waiting_clients
       THEN /\ waiting_clients' = waiting_clients \ {threads[t].arg}
            /\ Goto(t, "l162")
            /\ UNCHANGED crashed
       ELSE /\ Raise(t)
            /\ UNCHANGED waiting_clients
    /\ UNCHANGED <<program, script, connected, online_therapists, client_requests,
                   pending_requests, active_sessions, partner_of, timers, nsess,
                   created, cleared, sent, delivered>>

\* line 162, and line 165 when the client has no stored request
app1_decline_request_l162(t) ==
    /\ program = "app1" /\ At(t, "decline-request", "l162")
    /\ IF threads[t].arg \in client_requests
       THEN /\ Goto(t, "l163")
            /\ UNCHANGED sent
       ELSE /\ Emit1("request-declined", threads[t].arg, 0)
            /\ Finish(t)
    /\ UNCHANGED <<program, script, connected, online_therapists, client_requests,
                   waiting_clients, pending_requests, active_sessions,
                   partner_of, timers, nsess, created, cleared, delivered,
                   crashed>>

\* lines 163-165
app1_decline_request_l163(t) ==
    /\ program = "app1" /\ At(t, "decline-request", "l163")
    /\ IF threads[t].arg \in client_requests
       THEN /\ client_requests' = client_requests \ {threads[t].arg}
            /\ Emit1("request-declined", threads[t].arg, 0)
            /\ Finish(t)
            /\ UNCHANGED crashed
       ELSE /\ Raise(t)
            /\ UNCHANGED <<client_requests, sent>>
    /\ UNCHANGED <<program, script, connected, online_therapists, waiting_clients,
                   pending_requests, active_sessions, partner_of, timers, nsess,
                   created, cleared, delivered>>

\* handle_end_session answering a sender without a session with
\* session-ended
app1_end_session_l208_echo(s) ==
    /\ program = "app1"
    /\ Take("end-session", s)
    /\ IF find_session_by_participant(s) = 0
       THEN /\ Emit1("session-ended", s, 0)
            /\ UNCHANGED threads
       ELSE /\ Spawn("end-session", s, 0, "l210", find_session_by_participant(s))
            /\ UNCHANGED sent
    /\ UNCHANGED <<program, connected, online_therapists, client_requests,
                   waiting_clients, pending_requests, active_sessions,
                   partner_of, timers, nsess, created, cleared, delivered,
                   crashed>>

\* handle_end_session, lines 208-209
app1_end_session_l208(s) ==
    /\ program = "app1"
    /\ Take("end-session", s)
    /\ IF find_session_by_participant(s) = 0
       THEN UNCHANGED threads
       ELSE Spawn("end-session", s, 0, "l210", find_session_by_participant(s))
    /\ UNCHANGED <<program, connected, online_therapists, client_requests,
                   waiting_clients, pending_requests, active_sessions,
                   partner_of, timers, nsess, created, cleared, sent, delivered,
                   crashed>>

\* lines 210-214: dict lookup raises KeyError when the key is absent
app1_end_session_l210(t) ==
    /\ program = "app1" /\ At(t, "end-session", "l210")
    /\ IF threads[t].loc \in DOMAIN active_sessions
       THEN /\ Emit2("session-ended", active_sessions[threads[t].loc].client_sid,
                     "session-ended", active_sessions[threads[t].loc].therapist_sid,
                     threads[t].loc)
            /\ Goto(t, "l217")
            /\ UNCHANGED crashed
       ELSE /\ Raise(t)
            /\ UNCHANGED sent
    /\ UNCHANGED <<program, script, connected, online_therapists, client_requests,
                   waiting_clients, pending_requests, active_sessions,
                   partner_of, timers, nsess, created, cleared, delivered>>

\* line 217
app1_end_session_l217(t) ==
    /\ program = "app1" /\ At(t, "end-session", "l217")
    /\ IF threads[t].loc \in DOMAIN active_sessions
       THEN /\ active_sessions' = Remove(active_sessions, threads[t].loc)
            /\ Finish(t)
            /\ UNCHANGED crashed
       ELSE /\ Raise(t)
            /\ UNCHANGED active_sessions
    /\ UNCHANGED <<program, script, connected, online_therapists, client_requests,
                   waiting_clients, pending_requests, partner_of, timers, nsess,
                   created, cleared, sent, delivered>>

\* the timer thread of session n is at pc
TimerAt(n, pc) == n \in DOMAIN timers /\ timers[n].pc = pc

TimerGoto(n, pc) == timers' = [timers EXCEPT ![n].pc = pc]

\* the timer thread ends with an unhandled exception
TimerRaise(n) ==
    /\ timers' = [timers EXCEPT ![n].pc = "raised"]
    /\ crashed' = crashed \cup {<<"timer", n>>}

\* start_session_timer.end_session, lines 231-232: the sleep is over
app1_timer_l232(n) ==
    /\ program = "app1" /\ TimerAt(n, "sleep")
    /\ TimerGoto(n, IF n \in DOMAIN active_sessions THEN "l233" ELSE "done")
    /\ UNCHANGED <<program, script, connected, online_therapists, client_requests,
                   waiting_clients, pending_requests, active_sessions,
                   partner_of, threads, nsess, created, cleared, sent,
                   delivered, crashed>>

\* lines 233-235
app1_timer_l233(n) ==
    /\ program = "app1" /\ TimerAt(n, "l233")
    /\ IF n \in DOMAIN active_sessions
       THEN /\ Emit2("session-ended", active_sessions[n].client_sid,
                     "session-ended", active_sessions[n].therapist_sid, n)
            /\ TimerGoto(n, "l236")
            /\ UNCHANGED crashed
       ELSE /\ TimerRaise(n)
            /\ UNCHANGED sent
    /\ UNCHANGED <<program, script, connected, online_therapists, client_requests,
                   waiting_clients, pending_requests, active_sessions,
                   partner_of, threads, nsess, created, cleared, delivered>>

\* line 236
app1_timer_l236(n) ==
    /\ program = "app1" /\ TimerAt(n, "l236")
    /\ IF n \in DOMAIN active_sessions
       THEN /\ active_sessions' = Remove(active_sessions, n)
            /\ TimerGoto(n, "done")
            /\ UNCHANGED crashed
       ELSE /\ TimerRaise(n)
            /\ UNCHANGED active_sessions
    /\ UNCHANGED <<program, script, connected, online_therapists, client_requests,
                   waiting_clients, pending_requests, partner_of, threads,
                   nsess, created, cleared, sent, delivered>>

\* ------------------------------------------------------------- src/app.py
\* In app.py the dict active_sessions maps each participant to its partner;
\* it is the variable partner_of here.  The field sess is history: the number
\* of the accept that stored the entry.  dict.pop(k, None) and set.discard
\* never raise.

\* handle_disconnect, line 403: the transport has dropped the connection
app_disconnect_b403(s) ==
    /\ program = "app"
    /\ Take("disconnect", s)
    /\ connected' = connected \ {s}
    /\ online_therapists' = online_therapists \ {s}
    /\ Spawn("disconnect", s, 0, "b404", 0)
    /\ UNCHANGED <<program, client_requests, waiting_clients, pending_requests,
                   active_sessions, partner_of, timers, nsess, created, cleared,
                   sent, delivered, crashed>>

\* line 404
app_disconnect_b404(t) ==
    /\ program = "app" /\ At(t, "disconnect", "b404")
    /\ pending_requests' = Remove(pending_requests, threads[t].sid)
    /\ Goto(t, "b406")
    /\ UNCHANGED <<program, script, connected, online_therapists, client_requests,
                   waiting_clients, active_sessions, partner_of, timers, nsess,
                   created, cleared, sent, delivered, crashed>>

\* lines 406-407: partner = active_sessions.pop(request.sid, None)
app_disconnect_b406(t) ==
    /\ program = "app" /\ At(t, "disconnect", "b406")
    /\ partner_of' = Remove(partner_of, threads[t].sid)
    /\ IF threads[t].sid \in DOMAIN partner_of
       THEN threads' = [threads EXCEPT ![t].pc = "b408",
                                       ![t].loc = partner_of[threads[t].sid].partner,
                                       ![t].arg = partner_of[threads[t].sid].sess]
       ELSE Finish(t)
    /\ UNCHANGED <<program, script, connected, online_therapists, client_requests,
                   waiting_clients, pending_requests, active_sessions, timers,
                   nsess, created, cleared, sent, delivered, crashed>>

\* lines 408-409
app_disconnect_b408(t) ==
    /\ program = "app" /\ At(t, "disconnect", "b408")
    /\ partner_of' = Remove(partner_of, threads[t].loc)
    /\ Emit1("session-ended", threads[t].loc, threads[t].arg)
    /\ Finish(t)
    /\ UNCHANGED <<program, script, connected, online_therapists, client_requests,
                   waiting_clients, pending_requests, active_sessions, timers,
                   nsess, created, cleared, delivered, crashed>>

\* handle_therapist_online, lines 414-417
app_therapist_online(s) ==
    /\ program = "app"
    /\ Take("therapist-online", s)
    /\ online_therapists' = online_therapists \cup {s}
    /\ UNCHANGED <<program, connected, client_requests, waiting_clients,
                   pending_requests, active_sessions, partner_of, timers,
                   threads, nsess, created, cleared, sent, delivered, crashed>>

\* handle_therapist_offline, lines 419-421
app_therapist_offline(s) ==
    /\ program = "app"
    /\ Take("therapist-offline", s)
    /\ online_therapists' = online_therapists \ {s}
    /\ UNCHANGED <<program, connected, client_requests, waiting_clients,
                   pending_requests, active_sessions, partner_of, timers,
                   threads, nsess, created, cleared, sent, delivered, crashed>>

\* handle_accept_request, lines 425-427: the return is silent
app_accept_request_b426(s, c) ==
    /\ program = "app"
    /\ Take("accept-request", s)
    /\ IF c \notin DOMAIN pending_requests
       THEN UNCHANGED threads
       ELSE /\ nsess + AcceptsBeforeCreate < MaxSessions
            /\ Spawn("accept-request", s, c, "b430", 0)
    /\ UNCHANGED <<program, connected, online_therapists, client_requests,
                   waiting_clients, pending_requests, active_sessions,
                   partner_of, timers, nsess, created, cleared, sent, delivered,
                   crashed>>

\* line 430: active_sessions[client_sid] = therapist_sid
app_accept_request_b430(t) ==
    /\ program = "app" /\ At(t, "accept-request", "b430")
    /\ nsess' = nsess + 1
    /\ partner_of' = Put(partner_of, threads[t].arg,
                         [partner |-> threads[t].sid, sess |-> nsess + 1])
    /\ created' = Put(created, nsess + 1,
                      [client_sid |-> threads[t].arg, therapist_sid |-> threads[t].sid])
    /\ GotoLoc(t, "b431", nsess + 1)
    /\ UNCHANGED <<program, script, connected, online_therapists, client_requests,
                   waiting_clients, pending_requests, active_sessions, timers,
                   cleared, sent, delivered, crashed>>

\* line 431: active_sessions[therapist_sid] = client_sid
app_accept_request_b431(t) ==
    /\ program = "app" /\ At(t, "accept-request", "b431")
    /\ partner_of' = Put(partner_of, threads[t].sid,
                         [partner |-> threads[t].arg, sess |-> threads[t].loc])
    /\ Goto(t, "b432")
    /\ UNCHANGED <<program, script, connected, online_therapists, client_requests,
                   waiting_clients, pending_requests, active_sessions, timers,
                   nsess, created, cleared, sent, delivered, crashed>>

\* lines 432-437: the pop, the two emits, and the timer thread is started
app_accept_request_b432(t) ==
    /\ program = "app" /\ At(t, "accept-request", "b432")
    /\ pending_requests' = Remove(pending_requests, threads[t].arg)
    /\ Emit2("request-accepted", threads[t].arg, "request-accepted", threads[t].sid,
             threads[t].loc)
    /\ timers' = Put(timers, threads[t].loc,
                     [pc |-> "sleep", client_sid |-> threads[t].arg,
                      therapist_sid |-> threads[t].sid])
    /\ Finish(t)
    /\ UNCHANGED <<program, script, connected, online_therapists, client_requests,
                   waiting_clients, active_sessions, partner_of, nsess, created,
                   cleared, delivered, crashed>>

\* handle_decline_request, lines 441-443
app_decline_request_b442(s, c) ==
    /\ program = "app"
    /\ Take("decline-request", s)
    /\ Emit1("request-declined", c, 0)
    /\ Spawn("decline-request", s, c, "b444", 0)
    /\ UNCHANGED <<program, connected, online_therapists, client_requests,
                   waiting_clients, pending_requests, active_sessions,
                   partner_of, timers, nsess, created, cleared, delivered,
                   crashed>>

\* line 444
app_decline_request_b444(t) ==
    /\ program = "app" /\ At(t, "decline-request", "b444")
    /\ pending_requests' = Remove(pending_requests, threads[t].arg)
    /\ Finish(t)
    /\ UNCHANGED <<program, script, connected, online_therapists, client_requests,
                   waiting_clients, active_sessions, partner_of, timers, nsess,
                   created, cleared, sent, delivered, crashed>>

\* handle_request_therapist, lines 451-453
app_request_therapist_b451(s) ==
    /\ program = "app"
    /\ Take("request-therapist", s)
    /\ IF online_therapists = {}
       THEN /\ Emit1("error", s, MsgNoTherapists)
            /\ UNCHANGED threads
       ELSE /\ Spawn("request-therapist", s, 0, "b455", 0)
            /\ UNCHANGED sent
    /\ UNCHANGED <<program, connected, online_therapists, client_requests,
                   waiting_clients, pending_requests, active_sessions,
                   partner_of, timers, nsess, created, cleared, delivered,
                   crashed>>

\* line 455: list(online_therapists)[0] is whichever element the set yields
\* first, and raises IndexError on the empty set
app_request_therapist_b455(t) ==
    /\ program = "app" /\ At(t, "request-therapist", "b455")
    /\ IF online_therapists = {}
       THEN Raise(t)
       ELSE /\ \E therapist_sid \in online_therapists :
                 threads' = [threads EXCEPT ![t].pc = "b456",
                                            ![t].loc = therapist_sid,
                                            ![t].arg = online_therapists]
            /\ UNCHANGED crashed
    /\ UNCHANGED <<program, script, connected, online_therapists, client_requests,
                   waiting_clients, pending_requests, active_sessions,
                   partner_of, timers, nsess, created, cleared, sent, delivered>>

\* lines 456-459
app_request_therapist_b456(t) ==
    /\ program = "app" /\ At(t, "request-therapist", "b456")
    /\ pending_requests' = Put(pending_requests, threads[t].sid, threads[t].loc)
    /\ Emit2("therapist-request", threads[t].loc, "request-sent", threads[t].sid, 0)
    /\ Finish(t)
    /\ UNCHANGED <<program, script, connected, online_therapists, client_requests,
                   waiting_clients, active_sessions, partner_of, timers, nsess,
                   created, cleared, delivered, crashed>>

\* handle_cancel_request, lines 461-463
app_cancel_request(s) ==
    /\ program = "app"
    /\ Take("cancel-request", s)
    /\ pending_requests' = Remove(pending_requests, s)
    /\ cleared' = IF s \in DOMAIN pending_requests THEN cleared \cup {s} ELSE cleared
    /\ UNCHANGED <<program, connected, online_therapists, client_requests,
                   waiting_clients, active_sessions, partner_of, timers,
                   threads, nsess, created, sent, delivered, crashed>>

\* handle_end_session, lines 497-498
app_end_session_b497(s) ==
    /\ program = "app"
    /\ Take("end-session", s)
    /\ partner_of' = Remove(partner_of, s)
    /\ IF s \in DOMAIN partner_of
       THEN Spawn("end-session", s, partner_of[s].sess, "b499", partner_of[s].partner)
       ELSE UNCHANGED threads
    /\ UNCHANGED <<program, connected, online_therapists, client_requests,
                   waiting_clients, pending_requests, active_sessions, timers,
                   nsess, created, cleared, sent, delivered, crashed>>

\* lines 499-500
app_end_session_b499(t) ==
    /\ program = "app" /\ At(t, "end-session", "b499")
    /\ partner_of' = Remove(partner_of, threads[t].loc)
    /\ Emit1("session-ended", threads[t].loc, threads[t].arg)
    /\ Finish(t)
    /\ UNCHANGED <<program, script, connected, online_therapists, client_requests,
                   waiting_clients, pending_requests, active_sessions, timers,
                   nsess, created, cleared, delivered, crashed>>

\* auto_end_session(client_sid, therapist_sid), lines 164-165: the sleep is over
app_timer_b165(n) ==
    /\ program = "app" /\ TimerAt(n, "sleep")
    /\ TimerGoto(n, IF timers[n].client_sid \in DOMAIN partner_of THEN "b166" ELSE "done")
    /\ UNCHANGED <<program, script, connected, online_therapists, client_requests,
                   waiting_clients, pending_requests, active_sessions,
                   partner_of, threads, nsess, created, cleared, sent,
                   delivered, crashed>>

\* line 166
app_timer_b166(n) ==
    /\ program = "app" /\ TimerAt(n, "b166")
    /\ partner_of' = Remove(partner_of, timers[n].client_sid)
    /\ TimerGoto(n, "b167")
    /\ UNCHANGED <<program, script, connected, online_therapists, client_requests,
                   waiting_clients, pending_requests, active_sessions, threads,
                   nsess, created, cleared, sent, delivered, crashed>>

\* lines 167-169
app_timer_b167(n) ==
    /\ program = "app" /\ TimerAt(n, "b167")
    /\ partner_of' = Remove(partner_of, timers[n].therapist_sid)
    /\ Emit2("session-ended", timers[n].client_sid,
             "session-ended", timers[n].therapist_sid, n)
    /\ TimerGoto(n, "done")
    /\ UNCHANGED <<program, script, connected, online_therapists, client_requests,
                   waiting_clients, pending_requests, active_sessions, threads,
                   nsess, created, cleared, delivered, crashed>>


\* --------------------------------------------------- signaling relay (both)
\* The payload of a signaling message is opaque to the servers.  It is
\* modelled by a number that is unique among the messages of its sender: the
\* number of signaling events the sender has still to send, so that a message
\* sent earlier carries the larger number.
RelayLeft(s) ==
    script[<<"offer", s>>] + script[<<"answer", s>>] + script[<<"ice-candidate", s>>]

\* a signaling event arrives and its handler thread is started; the thread
\* runs its first statement whenever it is scheduled
relay_start(ev, s) ==
    /\ ev \in RelayEvents
    /\ Take(ev, s)
    /\ Spawn(ev, s, RelayLeft(s), "start", 0)
    /\ UNCHANGED <<program, connected, online_therapists, client_requests,
                   waiting_clients, pending_requests, active_sessions,
                   partner_of, timers, nsess, created, cleared, sent, delivered,
                   crashed>>

\* target_sid as computed at lines 175, 187 and 199 of app1.py
target_sid(session, sid) ==
    IF sid = session.therapist_sid THEN session.client_sid ELSE session.therapist_sid

\* the handlers of lines 172-173, answering a sender without a session with
\* an error event
app1_relay_l172_reports(t) ==
    /\ program = "app1"
    /\ threads[t].ev \in RelayEvents /\ threads[t].pc = "start"
    /\ IF find_session_by_participant(threads[t].sid) = 0
       THEN /\ Finish(t)
            /\ Emit1("error", threads[t].sid, 0)
       ELSE /\ GotoLoc(t, "l174", find_session_by_participant(threads[t].sid))
            /\ UNCHANGED sent
    /\ UNCHANGED <<program, script, connected, online_therapists, client_requests,
                   waiting_clients, pending_requests, active_sessions,
                   partner_of, timers, nsess, created, cleared, delivered,
                   crashed>>

\* app1.py handle_offer, handle_answer, handle_ice_candidate: lines 172-173,
\* 184-185, 196-197
app1_relay_l172(t) ==
    /\ program = "app1"
    /\ threads[t].ev \in RelayEvents /\ threads[t].pc = "start"
    /\ IF find_session_by_participant(threads[t].sid) = 0
       THEN Finish(t)
       ELSE GotoLoc(t, "l174", find_session_by_participant(threads[t].sid))
    /\ UNCHANGED <<program, script, connected, online_therapists, client_requests,
                   waiting_clients, pending_requests, active_sessions,
                   partner_of, timers, nsess, created, cleared, sent, delivered,
                   crashed>>

\* lines 174-179, 186-191, 198-203: the dict lookup raises KeyError when the
\* session is gone
app1_relay_l174(t) ==
    /\ program = "app1"
    /\ threads[t].ev \in RelayEvents /\ threads[t].pc = "l174"
    /\ IF threads[t].loc \in DOMAIN active_sessions
       THEN /\ delivered' = Append(delivered,
                   [ev |-> threads[t].ev,
                    to |-> target_sid(active_sessions[threads[t].loc], threads[t].sid),
                    from |-> threads[t].sid,
                    payload |-> threads[t].arg])
            /\ Finish(t)
            /\ UNCHANGED crashed
       ELSE /\ Raise(t)
            /\ UNCHANGED delivered
    /\ UNCHANGED <<program, script, connected, online_therapists, client_requests,
                   waiting_clients, pending_requests, active_sessions,
                   partner_of, timers, nsess, created, cleared, sent>>

\* app.py handle_offer, handle_answer, handle_ice_candidate: lines 470-475,
\* 479-484, 488-493
app_relay_b470(t) ==
    /\ program = "app"
    /\ threads[t].ev \in RelayEvents /\ threads[t].pc = "start"
    /\ IF threads[t].sid \in DOMAIN partner_of
       THEN delivered' = Append(delivered,
                [ev |-> threads[t].ev,
                 to |-> partner_of[threads[t].sid].partner,
                 from |-> threads[t].sid,
                 payload |-> threads[t].arg])
       ELSE UNCHANGED delivered
    /\ Finish(t)
    /\ UNCHANGED <<program, script, connected, online_therapists, client_requests,
                   waiting_clients, pending_requests, active_sessions,
                   partner_of, timers, nsess, created, cleared, sent, crashed>>
\* ------------------------------------------- therapist-online, as a thread
\* A therapist-online event arrives and its handler thread is started; the
\* thread runs its first statement whenever it is scheduled, which may be
\* after the handler of an event that the connection sent later.
therapist_online_start(s) ==
    /\ Take("therapist-online", s)
    /\ Spawn("therapist-online", s, 0, "start", 0)
    /\ UNCHANGED <<program, connected, online_therapists, client_requests,
                   waiting_clients, pending_requests, active_sessions,
                   partner_of, timers, nsess, created, cleared, sent, delivered,
                   crashed>>

\* app1.py handle_therapist_online, lines 68-70
app1_therapist_online_l68(t) ==
    /\ program = "app1" /\ At(t, "therapist-online", "start")
    /\ online_therapists' = online_therapists \cup {threads[t].sid}
    /\ Emit1("status-update", threads[t].sid, 0)
    /\ Finish(t)
    /\ UNCHANGED <<program, script, connected, client_requests, waiting_clients,
                   pending_requests, active_sessions, partner_of, timers, nsess,
                   created, cleared, delivered, crashed>>

\* app.py handle_therapist_online, lines 416-417
app_therapist_online_b416(t) ==
    /\ program = "app" /\ At(t, "therapist-online", "start")
    /\ online_therapists' = online_therapists \cup {threads[t].sid}
    /\ Finish(t)
    /\ UNCHANGED <<program, script, connected, client_requests, waiting_clients,
                   pending_requests, active_sessions, partner_of, timers, nsess,
                   created, cleared, sent, delivered, crashed>>

\* --------------------------------------------------------- specifications
\* every connection connects once; each <<event, sid>> of the set Once may be
\* sent MaxSend times and each of the set Again once more than that
Script(Once, Again) ==
    [k \in Events \X Sids |->
        IF k[1] = "connect"
        THEN (IF \E j \in Once \cup Again : j[2] = k[2] THEN 1 ELSE 0)
        ELSE IF k \in Again THEN MaxSend + 1
        ELSE IF k \in Once THEN MaxSend ELSE 0]

\* Matchmaking: therapists go online and offline and accept, clients request
\* and cancel.
MatchEvents ==
    ({"therapist-online", "therapist-offline", "accept-request"} \X Therapists)
    \cup ({"request-therapist", "cancel-request"} \X Clients)

InitMatch == Init /\ script = Script(MatchEvents, {})

NextMatch ==
    \/ \E s \in Sids : handle_connect(s)
    \/ \E s \in Therapists : app1_therapist_online(s)
    \/ \E s \in Therapists : app1_therapist_offline_l75(s)
    \/ \E t \in Threads : app1_therapist_offline_l76(t)
    \/ \E s \in Clients : app1_request_therapist_l83(s)
    \/ \E t \in Threads : app1_request_therapist_l88(t)
    \/ \E t \in Threads : app1_request_therapist_l92(t)
    \/ \E s \in Clients : app1_cancel_request_l106(s)
    \/ \E t \in Threads : app1_cancel_request_l107(t)
    \/ \E t \in Threads : app1_cancel_request_l108(t)
    \/ \E t \in Threads : app1_cancel_request_l109(t)
    \/ \E s \in Therapists, c \in Clients : app1_accept_request_l118(s, c)
    \/ \E t \in Threads : app1_accept_request_l124(t)
    \/ \E t \in Threads : app1_accept_request_l133(t)
    \/ \E t \in Threads : app1_accept_request_l134(t)
    \/ \E t \in Threads : app1_accept_request_l135(t)
    \/ \E s \in Therapists : app_therapist_online(s)
    \/ \E s \in Therapists : app_therapist_offline(s)
    \/ \E s \in Clients : app_request_therapist_b451(s)
    \/ \E t \in Threads : app_request_therapist_b455(t)
    \/ \E t \in Threads : app_request_therapist_b456(t)
    \/ \E s \in Clients : app_cancel_request(s)
    \/ \E s \in Therapists, c \in Clients : app_accept_request_b426(s, c)
    \/ \E t \in Threads : app_accept_request_b430(t)
    \/ \E t \in Threads : app_accept_request_b431(t)
    \/ \E t \in Threads : app_accept_request_b432(t)

SpecMatch == InitMatch /\ [][NextMatch]_vars

\* Session lifecycle: sessions are made by accepts and ended by end-session,
\* by disconnect and by their timers.
\* one therapist serves the clients, who may ask again after a session
Hosts == {Min(Therapists)}

Members == Clients \cup Hosts

SessionEvents ==
    ({"therapist-online"} \X Hosts) \cup ({"end-session"} \X Clients)
    \cup ({"disconnect"} \X Members)

AgainEvents ==
    ({"request-therapist"} \X Clients) \cup ({"accept-request"} \X Hosts)

InitSession == Init /\ script = Script(SessionEvents, AgainEvents)

NextSession ==
    \/ \E s \in Members : handle_connect(s)
    \/ \E s \in Hosts : app1_therapist_online(s)
    \/ \E s \in Clients : app1_request_therapist_l83(s)
    \/ \E t \in Threads : app1_request_therapist_l88(t)
    \/ \E t \in Threads : app1_request_therapist_l92(t)
    \/ \E s \in Hosts, c \in Clients : app1_accept_request_l118(s, c)
    \/ \E t \in Threads : app1_accept_request_l124(t)
    \/ \E t \in Threads : app1_accept_request_l133(t)
    \/ \E t \in Threads : app1_accept_request_l134(t)
    \/ \E t \in Threads : app1_accept_request_l135(t)
    \/ \E s \in Clients : app1_end_session_l208(s)
    \/ \E t \in Threads : app1_end_session_l210(t)
    \/ \E t \in Threads : app1_end_session_l217(t)
    \/ \E s \in Members : app1_disconnect_l38(s)
    \/ \E t \in Threads : app1_disconnect_l39(t)
    \/ \E t \in Threads : app1_disconnect_l43(t)
    \/ \E t \in Threads : app1_disconnect_l44(t)
    \/ \E t \in Threads : app1_disconnect_l47(t)
    \/ \E t \in Threads : app1_disconnect_l48(t)
    \/ \E t \in Threads : app1_disconnect_l52(t)
    \/ \E t \in Threads : app1_disconnect_l63(t)
    \/ \E n \in SessionIds : app1_timer_l232(n)
    \/ \E n \in SessionIds : app1_timer_l233(n)
    \/ \E n \in SessionIds : app1_timer_l236(n)
    \/ \E s \in Hosts : app_therapist_online(s)
    \/ \E s \in Clients : app_request_therapist_b451(s)
    \/ \E t \in Threads : app_request_therapist_b455(t)
    \/ \E t \in Threads : app_request_therapist_b456(t)
    \/ \E s \in Hosts, c \in Clients : app_accept_request_b426(s, c)
    \/ \E t \in Threads : app_accept_request_b430(t)
    \/ \E t \in Threads : app_accept_request_b431(t)
    \/ \E t \in Threads : app_accept_request_b432(t)
    \/ \E s \in Clients : app_end_session_b497(s)
    \/ \E t \in Threads : app_end_session_b499(t)
    \/ \E s \in Members : app_disconnect_b403(s)
    \/ \E t \in Threads : app_disconnect_b404(t)
    \/ \E t \in Threads : app_disconnect_b406(t)
    \/ \E t \in Threads : app_disconnect_b408(t)
    \/ \E n \in SessionIds : app_timer_b165(n)
    \/ \E n \in SessionIds : app_timer_b166(n)
    \/ \E n \in SessionIds : app_timer_b167(n)

SpecSession == InitSession /\ [][NextSession]_vars


\* Signaling: one client and one therapist are matched and exchange signaling
\* messages: the client an offer and a candidate, the therapist an answer.
\* Any member may send the accept.
RelayOnce ==
    ({"therapist-online"} \X Hosts) \cup ({"request-therapist"} \X Clients)
    \cup ({"accept-request"} \X Members)
    \cup ({"offer", "ice-candidate"} \X Clients) \cup ({"answer"} \X Hosts)

InitRelay == Init /\ script = Script(RelayOnce, {})

NextRelay ==
    \/ \E s \in Members : handle_connect(s)
    \/ \E s \in Hosts : app1_therapist_online(s)
    \/ \E s \in Clients : app1_request_therapist_l83(s)
    \/ \E t \in Threads : app1_request_therapist_l88(t)
    \/ \E t \in Threads : app1_request_therapist_l92(t)
    \/ \E s \in Members, c \in Clients : app1_accept_request_l118(s, c)
    \/ \E t \in Threads : app1_accept_request_l124(t)
    \/ \E t \in Threads : app1_accept_request_l133(t)
    \/ \E t \in Threads : app1_accept_request_l134(t)
    \/ \E t \in Threads : app1_accept_request_l135(t)
    \/ \E ev \in RelayEvents, s \in Members : relay_start(ev, s)
    \/ \E t \in Threads : app1_relay_l172(t)
    \/ \E t \in Threads : app1_relay_l174(t)
    \/ \E s \in Hosts : app_therapist_online(s)
    \/ \E s \in Clients : app_request_therapist_b451(s)
    \/ \E t \in Threads : app_request_therapist_b455(t)
    \/ \E t \in Threads : app_request_therapist_b456(t)
    \/ \E s \in Members, c \in Clients : app_accept_request_b426(s, c)
    \/ \E t \in Threads : app_accept_request_b430(t)
    \/ \E t \in Threads : app_accept_request_b431(t)
    \/ \E t \in Threads : app_accept_request_b432(t)
    \/ \E t \in Threads : app_relay_b470(t)

SpecRelay == InitRelay /\ [][NextRelay]_vars

\* Declining: therapists go online, decline and accept the request of a
\* client.
DeclineOnce ==
    ({"therapist-online", "decline-request", "accept-request"} \X Therapists)
    \cup ({"request-therapist"} \X Clients)

InitDecline == Init /\ script = Script(DeclineOnce, {})

NextDecline ==
    \/ \E s \in Sids : handle_connect(s)
    \/ \E s \in Therapists : app1_therapist_online(s)
    \/ \E s \in Clients : app1_request_therapist_l83(s)
    \/ \E t \in Threads : app1_request_therapist_l88(t)
    \/ \E t \in Threads : app1_request_therapist_l92(t)
    \/ \E s \in Therapists, c \in Clients : app1_decline_request_l159(s, c)
    \/ \E t \in Threads : app1_decline_request_l160(t)
    \/ \E t \in Threads : app1_decline_request_l162(t)
    \/ \E t \in Threads : app1_decline_request_l163(t)
    \/ \E s \in Therapists, c \in Clients : app1_accept_request_l118(s, c)
    \/ \E t \in Threads : app1_accept_request_l124(t)
    \/ \E t \in Threads : app1_accept_request_l133(t)
    \/ \E t \in Threads : app1_accept_request_l134(t)
    \/ \E t \in Threads : app1_accept_request_l135(t)
    \/ \E s \in Therapists : app_therapist_online(s)
    \/ \E s \in Clients : app_request_therapist_b451(s)
    \/ \E t \in Threads : app_request_therapist_b455(t)
    \/ \E t \in Threads : app_request_therapist_b456(t)
    \/ \E s \in Therapists, c \in Clients : app_decline_request_b442(s, c)
    \/ \E t \in Threads : app_decline_request_b444(t)
    \/ \E s \in Therapists, c \in Clients : app_accept_request_b426(s, c)
    \/ \E t \in Threads : app_accept_request_b430(t)
    \/ \E t \in Threads : app_accept_request_b431(t)
    \/ \E t \in Threads : app_accept_request_b432(t)

SpecDecline == InitDecline /\ [][NextDecline]_vars

\* Presence: therapists go online and offline and disconnect.
PresenceOnce ==
    {"therapist-online", "therapist-offline", "disconnect"} \X Therapists

InitPresence == Init /\ script = Script(PresenceOnce, {})

NextPresence ==
    \/ \E s \in Therapists : handle_connect(s)
    \/ \E s \in Therapists : therapist_online_start(s)
    \/ \E t \in Threads : app1_therapist_online_l68(t)
    \/ \E s \in Therapists : app1_therapist_offline_l75(s)
    \/ \E t \in Threads : app1_therapist_offline_l76(t)
    \/ \E s \in Therapists : app1_disconnect_l38(s)
    \/ \E t \in Threads : app1_disconnect_l39(t)
    \/ \E t \in Threads : app1_disconnect_l43(t)
    \/ \E t \in Threads : app1_disconnect_l47(t)
    \/ \E t \in Threads : app1_disconnect_l52(t)
    \/ \E t \in Threads : app_therapist_online_b416(t)
    \/ \E s \in Therapists : app_therapist_offline(s)
    \/ \E s \in Therapists : app_disconnect_b403(s)
    \/ \E t \in Threads : app_disconnect_b404(t)
    \/ \E t \in Threads : app_disconnect_b406(t)

SpecPresence == InitPresence /\ [][NextPresence]_vars

\* ------------------------------------------------------------- properties
RECURSIVE SumOver(_, _)
SumOver(f, S) ==
    IF S = {} THEN 0
    ELSE LET x == CHOOSE y \in S : TRUE IN f[x] + SumOver(f, S \ {x})

\* how many times ev was emitted to the connection to, over all sessions
SentTo(ev, to) == SumOver(sent, {e \in DOMAIN sent : e[1] = ev /\ e[2] = to})

\* no handler thread is between two of its steps
Quiet == \A t \in Threads : threads[t].pc = "idle"

\* the sessions ever created with sid as client or as therapist
SessionsOf(sid) ==
    {n \in DOMAIN created : sid \in {created[n].client_sid, created[n].therapist_sid}}

\* sid has a pending request in the stores cr, wc (app1.py) or pr (app.py)
PendingIn(sid, cr, wc, pr) ==
    IF program = "app1" THEN sid \in cr \cup wc ELSE sid \in DOMAIN pr

Pending(sid) == PendingIn(sid, client_requests, waiting_clients, pending_requests)

\* sid is a party to an entry of the session table as (app1.py) or po (app.py)
PartyIn(sid, as, po) ==
    IF program = "app1"
    THEN \E n \in DOMAIN as : sid \in {as[n].client_sid, as[n].therapist_sid}
    ELSE sid \in DOMAIN po \/ \E x \in DOMAIN po : po[x].partner = sid

\* the accept-request events sent so far in a matchmaking run
AcceptsSent ==
    SumOver([s \in Therapists |-> MaxSend - script[<<"accept-request", s>>]], Therapists)

\* the notification a therapist gets of its session: session-started in
\* app1.py, request-accepted in app.py
Started(s) ==
    SentTo("session-started", s)
    + (IF program = "app" THEN SentTo("request-accepted", s) ELSE 0)

\* the client's one request was stored, was not cancelled and is pending no
\* more, and every handler has run to its end
RequestTaken(c) ==
    /\ Quiet
    /\ SentTo("request-sent", c) = 1
    /\ ~Pending(c)
    /\ c \notin cleared

\* C1: of the accept-request handlers that name a client holding one pending
\* request, exactly one creates a session for the client and every other one
\* is answered with the error event 'request no longer available'.
C1_ExactlyOneAcceptCreates ==
    \A c \in Clients :
        RequestTaken(c) =>
            /\ Cardinality({n \in DOMAIN created : created[n].client_sid = c}) = 1
            /\ SumOver([s \in Therapists |-> SentTo("error", s)], Therapists)
                 = AcceptsSent - 1

\* C2: with both therapists online and both having accepted the request of
\* client C, exactly one therapist is told its session started, the other
\* gets an error event, and C gets exactly one request-accepted.
C2_OneStartedOtherError ==
    \A c \in Clients :
        (/\ RequestTaken(c)
         /\ Therapists \subseteq online_therapists
         /\ \A s \in Therapists : script[<<"accept-request", s>>] = 0)
        => /\ Cardinality({s \in Therapists : Started(s) >= 1}) = 1
           /\ \A s \in Therapists : Started(s) <= 1
           /\ \A s \in Therapists : Started(s) = 0 => SentTo("error", s) >= 1
           /\ SentTo("request-accepted", c) = 1

\* C3: no participant is sent session-ended for the same session more than
\* once, whichever of end-session, disconnect and the timer end it.
C3_SessionEndedOnce ==
    \A e \in DOMAIN sent : e[1] = "session-ended" => sent[e] <= 1

\* C4: a participant is a party to at most one active session: at most one
\* entry of app1.py's table holds it, and app.py's map pairs it with at most
\* one partner.
C4_AtMostOneSession ==
    \A p \in Sids :
        IF program = "app1"
        THEN Cardinality({n \in DOMAIN active_sessions :
                 p \in {active_sessions[n].client_sid,
                        active_sessions[n].therapist_sid}}) <= 1
        ELSE Cardinality({partner_of[x].partner : x \in DOMAIN partner_of \cap {p}}
                 \cup {x \in DOMAIN partner_of : partner_of[x].partner = p}) <= 1

\* C5: when the disconnect handler of a connection returns, the connection
\* is not an online therapist, has no pending request and is a party to no
\* active session.
C5_DisconnectRemovesEverywhere ==
    [][\A t \in Threads :
          (/\ threads[t].ev = "disconnect"
           /\ threads'[t].pc = "idle"
           /\ crashed' = crashed)
          => /\ threads[t].sid \notin online_therapists'
             /\ ~PendingIn(threads[t].sid, client_requests', waiting_clients',
                           pending_requests')
             /\ ~PartyIn(threads[t].sid, active_sessions', partner_of')]_vars

\* session n was ended by end-session or by disconnect; read while the timer
\* of session n still sleeps
Ended(n) ==
    /\ n \in DOMAIN created
    /\ IF program = "app1"
       THEN n \notin DOMAIN active_sessions
       ELSE \E p \in Sids : Sent("session-ended", p, n) >= 1

\* C6: a timer that fires after its session has ended does nothing: it
\* returns at once, changes no registry and emits nothing.
C6_LateTimerIsNoOp ==
    [][\A n \in DOMAIN timers :
          (timers[n].pc = "sleep" /\ timers'[n].pc # "sleep" /\ Ended(n))
          => /\ timers'[n].pc = "done"
             /\ registry' = registry
             /\ sent' = sent]_vars

\* session n has an entry in the session table
Active(n) ==
    IF program = "app1"
    THEN n \in DOMAIN active_sessions
    ELSE \E x \in DOMAIN partner_of : partner_of[x].sess = n

\* C7: every session in the session table has its expiry timer armed, or the
\* accept handler that created it is still on its way to arming it, so that
\* the session leaves the table when the timer fires.
C7_EverySessionHasTimer ==
    \A n \in DOMAIN created :
        Active(n) =>
            \/ n \in DOMAIN timers /\ timers[n].pc \notin {"done", "raised"}
            \/ \E t \in Threads : threads[t].ev = "accept-request" /\ threads[t].loc = n

\* C8: a request-therapist that arrives while no therapist is online is
\* answered with the error event 'no therapists available' and nothing else:
\* no emit besides it, no registry changed, and the handler has returned.
C8_NoTherapistsError ==
    [][\A c \in Clients :
          (/\ script'[<<"request-therapist", c>>] # script[<<"request-therapist", c>>]
           /\ online_therapists = {})
          => /\ sent' = Add1(sent, <<"error", c, MsgNoTherapists>>)
             /\ registry' = registry
             /\ threads' = threads
             /\ crashed' = crashed]_vars

\* a request-therapist was answered with 'no therapists available'
C8_Witness ==
    \E c \in Clients :
        Sent("error", c, MsgNoTherapists) >= 1 /\ ~Pending(c) /\ Quiet

\* the step is the arrival of a cancel-request of c, or the check of line 108
\* in its handler
CancelStep(c) ==
    \/ script'[<<"cancel-request", c>>] # script[<<"cancel-request", c>>]
    \/ \E t \in Threads : /\ At(t, "cancel-request", "l108")
                          /\ threads[t].sid = c
                          /\ threads'[t] # threads[t]

\* C9: a cancel-request of a client that has no pending request changes no
\* registry, emits no error event and raises no exception.
C9_CancelWithoutRequest ==
    [][\A c \in Clients :
          (CancelStep(c) /\ ~Pending(c))
          => /\ registry' = registry
             /\ crashed' = crashed
             /\ \A e \in DOMAIN sent' :
                   e[1] = "error" => e \in DOMAIN sent /\ sent'[e] = sent[e]]_vars

\* a cancel-request that found nothing to cancel has returned
C9_Witness ==
    \E c \in Clients :
        /\ script[<<"cancel-request", c>>] < MaxSend
        /\ c \notin cleared
        /\ \A t \in Threads : ~(threads[t].ev = "cancel-request" /\ threads[t].sid = c)
        /\ crashed = {}

\* the cancel-request of c removed its request and its handler has returned
Cancelled(c) ==
    /\ c \in cleared
    /\ \A t \in Threads : ~(threads[t].ev = "cancel-request" /\ threads[t].sid = c)

\* C10: once the cancel-request of a client has been processed, no session
\* is created for the client from the cancelled request.
C10_NoSessionAfterCancel ==
    [][\A c \in Clients :
          Cancelled(c) =>
              {n \in DOMAIN created' : created'[n].client_sid = c}
                = {n \in DOMAIN created : created[n].client_sid = c}]_vars

\* C11: a signaling message is relayed once, under its own event name and
\* with its payload and its sender's sid, to the other member of a session of
\* the sender, and never to the sender itself.
C11_RelayToPartnerOnly ==
    [][Len(delivered') > Len(delivered) =>
          /\ Len(delivered') = Len(delivered) + 1
          /\ LET m == delivered'[Len(delivered')]
             IN /\ m.to # m.from
                /\ IF program = "app1"
                   THEN \E n \in DOMAIN active_sessions :
                            {m.from, m.to} = {active_sessions[n].client_sid,
                                              active_sessions[n].therapist_sid}
                   ELSE /\ m.from \in DOMAIN partner_of
                        /\ partner_of[m.from].partner = m.to
                /\ \E t \in Threads : /\ threads[t].ev = m.ev
                                      /\ threads[t].sid = m.from
                                      /\ threads[t].arg = m.payload
                                      /\ threads'[t].pc = "idle"]_vars

\* C12: two signaling messages relayed from the same sender to the same
\* recipient are emitted in the order in which they were sent (the message
\* sent first carries the larger number).
C12_RelayKeepsOrder ==
    \A i \in DOMAIN delivered : \A j \in DOMAIN delivered :
        (/\ i < j
         /\ delivered[i].from = delivered[j].from
         /\ delivered[i].to = delivered[j].to
         /\ delivered[i].to # delivered[i].from)
        => delivered[i].payload > delivered[j].payload

\* how many times ev was emitted to the connection to about session tag,
\* read from the bag
SentIn(bag, ev, to, tag) ==
    IF <<ev, to, tag>> \in DOMAIN bag THEN bag[<<ev, to, tag>>] ELSE 0

\* the step is the arrival of a decline-request of therapist s or a step of
\* its handler
DeclineStep(s) ==
    \/ script'[<<"decline-request", s>>] # script[<<"decline-request", s>>]
    \/ \E t \in Threads : /\ threads[t].ev = "decline-request"
                          /\ threads[t].sid = s
                          /\ threads'[t] # threads[t]

\* C13: while another therapist is online, the decline-request of one
\* therapist leaves the pending request of a waiting client in place and
\* sends the client no request-declined.
C13_LoneDeclineKeepsRequest ==
    [][\A s \in Therapists :
          (/\ DeclineStep(s)
           /\ s \in online_therapists
           /\ online_therapists \ {s} # {})
          => \A c \in Clients :
                 Pending(c) =>
                     /\ PendingIn(c, client_requests', waiting_clients',
                                  pending_requests')
                     /\ SentIn(sent', "request-declined", c, 0)
                          = SentIn(sent, "request-declined", c, 0)]_vars

\* the connections that the step sends a therapist-request to
RequestRecipients ==
    {s \in Sids : SentIn(sent', "therapist-request", s, 0)
                    > SentIn(sent, "therapist-request", s, 0)}

\* C14: the request-therapist handler that answers request-sent sends
\* therapist-request to exactly the therapists that it read as online: to
\* each of them, and to no other connection.
C14_RequestToOnlineTherapists ==
    [][\A t \in Threads :
          (/\ threads[t].ev = "request-therapist"
           /\ threads'[t].pc = "idle"
           /\ SentIn(sent', "request-sent", threads[t].sid, 0)
                > SentIn(sent, "request-sent", threads[t].sid, 0))
          => RequestRecipients = threads[t].arg]_vars

\* C15: an accept-request that arrives while no client has a pending
\* request sends the error "request no longer available" to the accepting
\* therapist and nothing else, starts no handler work, creates no session,
\* arms no timer and leaves the registry unchanged.
C15_AcceptWithoutRequest ==
    [][\A s \in Sids :
          (/\ script'[<<"accept-request", s>>] < script[<<"accept-request", s>>]
           /\ \A c \in Clients : ~Pending(c))
          => /\ sent' = Add1(sent, <<"error", s, MsgRequestGone>>)
             /\ registry' = registry
             /\ timers' = timers
             /\ created' = created
             /\ threads' = threads]_vars

\* the session that the end-session handler thread t found for its sender
EndedBy(t) == IF program = "app1" THEN threads[t].loc ELSE threads[t].arg

\* session n is in the session table as (app1.py) or po (app.py)
ActiveIn(n, as, po) ==
    IF program = "app1"
    THEN n \in DOMAIN as
    ELSE \E x \in DOMAIN po : po[x].sess = n

\* C16: when the end-session handler of a participant of an active session
\* returns, the session has left the session table and session-ended has
\* been sent to both participants of the session.
C16_EndSessionTellsBoth ==
    [][\A t \in Threads :
          (/\ threads[t].ev = "end-session"
           /\ threads'[t].pc = "idle"
           /\ crashed' = crashed)
          => /\ ~ActiveIn(EndedBy(t), active_sessions', partner_of')
             /\ \A p \in {created[EndedBy(t)].client_sid,
                          created[EndedBy(t)].therapist_sid} :
                    SentIn(sent', "session-ended", p, EndedBy(t)) >= 1]_vars

\* C17: no handler and no timer ends with an unhandled exception.
C17_NoHandlerRaises == crashed = {}

\* C18: a connection is in online_therapists only if it has sent
\* therapist-online, and once every handler has returned no connection that
\* has disconnected is left in the set.
C18_OnlineOnlyWhileConnected ==
    /\ \A s \in online_therapists : script[<<"therapist-online", s>>] < MaxSend
    /\ Quiet => online_therapists \subseteq connected

\* the request-therapist events that c has sent so far in a matchmaking run
RequestsSent(c) == MaxSend - script[<<"request-therapist", c>>]

\* a session has been created for c and the accept handlers have returned
Matched(c) ==
    /\ \E n \in DOMAIN created : created[n].client_sid = c
    /\ \A t \in Threads : ~(threads[t].ev = "accept-request" /\ threads[t].arg = c)

\* C19: when the one request-therapist that a client has sent has been
\* cancelled or matched and the client has no pending request, no step gives
\* the client a pending request again.
C19_TerminalStatesAbsorb ==
    [][\A c \in Clients :
          (/\ Cancelled(c) \/ Matched(c)
           /\ RequestsSent(c) = 1
           /\ ~Pending(c))
          => ~PendingIn(c, client_requests', waiting_clients',
                        pending_requests')]_vars

\* the step adds or overwrites an entry of the session table
TableGrows ==
    \/ DOMAIN active_sessions' \ DOMAIN active_sessions # {}
    \/ \E x \in DOMAIN partner_of' :
           x \notin DOMAIN partner_of \/ partner_of'[x] # partner_of[x]

\* the step is one of the accept-request handler thread t
AcceptStep(t) == threads[t].ev = "accept-request" /\ threads'[t] # threads[t]

\* thread t is at the statement of the accept-request handler that removes
\* the pending request: lines 133 and 135 of app1.py, line 432 of app.py
AtRemoval(t) ==
    \/ At(t, "accept-request", "l133")
    \/ At(t, "accept-request", "l135")
    \/ At(t, "accept-request", "b432")

\* C20: only a step of an accept-request handler adds to the session table;
\* the session it creates pairs the accepting therapist with the named
\* client, which has a pending request at that moment; and the pending
\* request is still there when the same handler comes to remove it.
C20_SessionOnlyFromPendingAccept ==
    [][/\ TableGrows => \E t \in Threads : AcceptStep(t)
       /\ \A n \in DOMAIN created' \ DOMAIN created :
              \E t \in Threads :
                  /\ AcceptStep(t)
                  /\ created'[n] = [client_sid |-> threads[t].arg,
                                    therapist_sid |-> threads[t].sid]
                  /\ Pending(threads[t].arg)
       /\ \A t \in Threads :
              (AcceptStep(t) /\ AtRemoval(t)) => Pending(threads[t].arg)]_vars

\* the step is one of the signaling handler thread t
RelayStep(t) == threads[t].ev \in RelayEvents /\ threads'[t] # threads[t]

\* C21: a step of the handler of an offer, answer or ice-candidate whose
\* sender is in no session relays nothing, emits nothing and changes no
\* registry and no timer; the handler that looks its sender up and finds no
\* session returns at once without raising.
C21_RelayWithoutSessionDropped ==
    [][\A t \in Threads :
          (RelayStep(t) /\ ~PartyIn(threads[t].sid, active_sessions, partner_of))
          => /\ delivered' = delivered
             /\ sent' = sent
             /\ registry' = registry
             /\ timers' = timers
             /\ created' = created
             /\ threads[t].pc = "start"
                  => (threads'[t] = Idle /\ crashed' = crashed)]_vars

\* a connection that was never in a session has sent a signaling event, the
\* handler has returned and nothing was relayed
C21_Witness ==
    \E s \in Members :
        /\ SessionsOf(s) = {}
        /\ \E ev \in RelayEvents : script[<<ev, s>>] = 0 /\ <<ev, s>> \in RelayOnce
        /\ \A t \in Threads : threads[t].sid # s
        /\ \A i \in DOMAIN delivered : delivered[i].from # s
        /\ crashed = {}

\* thread t is the disconnect handler at its lookup of the session of its
\* sender: line 52 of app1.py, line 406 of app.py
DisconnectLookup(t) ==
    /\ At(t, "disconnect", "l52") \/ At(t, "disconnect", "b406")
    /\ threads'[t] # threads[t]

\* thread t is the disconnect handler and returns from the removal of the
\* session that it found: line 63 of app1.py, lines 408-409 of app.py
DisconnectRemoval(t) ==
    /\ At(t, "disconnect", "l63") \/ At(t, "disconnect", "b408")
    /\ threads'[t].pc = "idle"
    /\ crashed' = crashed

\* the session that the disconnect handler thread t found
FoundBy(t) == IF program = "app1" THEN threads[t].loc ELSE threads[t].arg

\* the step, if it is one of the disconnect handler thread t, does what the
\* handler of a participant without or with a session has to do
DisconnectConforms(t) ==
    /\ (DisconnectLookup(t)
          /\ ~PartyIn(threads[t].sid, active_sessions, partner_of))
       => (sent' = sent /\ threads'[t] = Idle)
    /\ (DisconnectLookup(t)
          /\ PartyIn(threads[t].sid, active_sessions, partner_of))
       => threads'[t].pc \in {"l63", "b408"}
    /\ DisconnectRemoval(t)
       => /\ ~ActiveIn(FoundBy(t), active_sessions', partner_of')
          /\ SentIn(sent', "session-ended",
                    OtherSid(created[FoundBy(t)], threads[t].sid),
                    FoundBy(t)) >= 1

\* no handler but thread t and no timer is between two of its statements
OnlyHandler(t) ==
    /\ \A u \in Threads \ {t} : threads[u].pc = "idle"
    /\ \A n \in DOMAIN timers : timers[n].pc \in {"sleep", "done"}

\* C22: while no other handler is running, the disconnect handler of a
\* participant of no session emits nothing; the disconnect handler of a
\* participant of a session goes on to end a session, and when it returns
\* that session has left the session table and session-ended has been sent
\* to the other party of that session.
C22_DisconnectEndsSession ==
    [][\A t \in Threads : OnlyHandler(t) => DisconnectConforms(t)]_vars

\* C23: an end-session that arrives from a participant of no session, whose
\* session has ended or never was, changes no registry and no timer, emits
\* nothing, starts no handler work and raises nothing.
C23_EndSessionIdempotent ==
    [][\A s \in Sids :
          (/\ script'[<<"end-session", s>>] < script[<<"end-session", s>>]
           /\ ~PartyIn(s, active_sessions, partner_of))
          => /\ registry' = registry
             /\ timers' = timers
             /\ sent' = sent
             /\ threads' = threads
             /\ crashed' = crashed]_vars

\* a client has sent its end-session, no end-session ever found a session
\* to end, and the session of the client has ended otherwise
C23_Witness ==
    \E c \in Clients :
        /\ script[<<"end-session", c>>] = 0
        /\ Quiet
        /\ crashed = {}
        /\ SessionsOf(c) # {}
        /\ ~PartyIn(c, active_sessions, partner_of)
        /\ \A n \in SessionIds : \A h \in Hosts : Sent("session-ended", h, n) = 0

\* the step deletes an entry of session n from the session table
Removes(n) ==
    IF program = "app1"
    THEN n \in DOMAIN active_sessions /\ n \notin DOMAIN active_sessions'
    ELSE \E x \in DOMAIN partner_of :
             partner_of[x].sess = n /\ x \notin DOMAIN partner_of'

\* the step is one of the end-session or disconnect handler of participant s
EndingStep(s) ==
    \/ script'[<<"end-session", s>>] < script[<<"end-session", s>>]
    \/ \E t \in Threads : /\ threads[t].ev \in {"end-session", "disconnect"}
                          /\ threads[t].sid = s
                          /\ threads'[t] # threads[t]

\* the step is one of the expiry timer of session n
TimerStep(n) == n \in DOMAIN timers /\ timers'[n] # timers[n]

\* C24: a step that deletes an entry of session n from the session table is
\* a step of the end-session or disconnect handler of one of the two
\* participants of session n, or a step of the expiry timer of session n.
C24_OnlyOwnTriggersEnd ==
    [][\A n \in DOMAIN created :
          Removes(n) => \/ EndingStep(created[n].client_sid)
                        \/ EndingStep(created[n].therapist_sid)
                        \/ TimerStep(n)]_vars

\* no handler and no timer is between two of its statements
Between ==
    /\ Quiet
    /\ \A n \in DOMAIN timers : timers[n].pc \in {"sleep", "done"}

\* C25: between handler executions the active_sessions map of app.py is
\* symmetric: the partner of each key is a key whose partner is that key.
C25_SessionMapSymmetric ==
    (program = "app" /\ Between)
    => \A a \in DOMAIN partner_of :
           /\ partner_of[a].partner \in DOMAIN partner_of
           /\ partner_of[partner_of[a].partner].partner = a

\* C26: the two members of every session ever created are distinct
\* connections.
C26_MembersDistinct ==
    \A n \in DOMAIN created : created[n].client_sid # created[n].therapist_sid

\* C27: in app.py the step that creates a session for a client with a
\* pending request creates it with the therapist that the pending request
\* names as its target.
C27_SessionWithTargetOnly ==
    [][program = "app" =>
          \A n \in DOMAIN created' \ DOMAIN created :
              created'[n].client_sid \in DOMAIN pending_requests
              => created'[n].therapist_sid
                   = pending_requests[created'[n].client_sid]]_vars

\* C28: between handler executions every pending request of app.py names a
\* target that is in online_therapists.
C28_TargetIsOnline ==
    (program = "app" /\ Between)
    => \A c \in DOMAIN pending_requests : pending_requests[c] \in online_therapists

\* C29: between handler executions the waiting_clients set of app1.py is the
\* key set of client_requests.
C29_WaitingIsRequestKeys ==
    (program = "app1" /\ Between) => waiting_clients = client_requests

\* C30: a step of the decline-request handler taken while no client has a
\* pending request changes no registry and sends request-declined to no one.
C30_DeclineWithoutRequest ==
    [][\A s \in Sids :
          (DeclineStep(s) /\ \A c \in Clients : ~Pending(c))
          => /\ registry' = registry
             /\ \A c \in Sids : SentIn(sent', "request-declined", c, 0)
                                 = SentIn(sent, "request-declined", c, 0)]_vars

====
